---- MODULE Spec2Model ----
(***************************************************************************)
(* Smart Cut API (backend/main.py): the /cut-video handler, the keep-list  *)
(* computation of its video and audio branches, and the files it leaves    *)
(* under uploads/ and outputs/, with the /download handler that reads them.*)
(*                                                                         *)
(* Time is counted in ticks of 5 ms, so the handler's 10 ms tolerance is 2 *)
(* ticks and a 0.005 s fragment is 1 tick.  Every comparison the code makes*)
(* on seconds is the same comparison on ticks.                             *)
(*                                                                         *)
(* The handlers are coroutines that never await (main.py:314-448): the     *)
(* single event loop started at main.py:467 runs one handler to its end    *)
(* before it starts the next, so the steps of two handlers never           *)
(* interleave.  What requests share is the filesystem, which outlives them.*)
(***************************************************************************)
EXTENDS Integers, Sequences, FiniteSets, TLC

\* ---------------------------------------------------------------- bounds
MaxTime == 4
MaxCuts == 2
MaxRequests == 2

\* tolerance = 0.01 (main.py:372), in ticks of 5 ms
Tolerance == 2

Times == 0..MaxTime
Durations == 1..MaxTime
Reqs == 1..MaxRequests

\* A cut of the request body: {"start": s, "end": e}.  Nothing in the
\* handler requires start < end, so every pair is a possible input.
CutDicts == [start : Times, end : Times]
CutLists == UNION {[1..n -> CutDicts] : n \in 0..MaxCuts}

\* The form field `cuts`: a text that either is the JSON of a list of cuts
\* or is no JSON at all, on which json.loads raises.
BadJson == [json |-> FALSE, list |-> <<>>]
CutsFields == {[json |-> TRUE, list |-> l] : l \in CutLists} \cup {BadJson}

\* file.filename, as stem and extension.
VideoExts == {".mp4", ".avi", ".mov", ".webm"}
Filenames == [stem : {"a"}, ext : {".mp4", ".mp3"}]

\* is_video = file_path.lower().endswith(('.mp4', '.avi', '.mov', '.webm'))
IsVideo(f) == f.ext \in VideoExts

NoFile == [stem |-> "", ext |-> ""]

\* ------------------------------------------------------- the keep list

\* list.sort(key=lambda x: x["start"]): a stable sort, cuts of equal start
\* keep the order of the request.
RECURSIVE InsertByStart(_, _)
InsertByStart(c, sorted) ==
    IF sorted = <<>> \/ c.start <= Head(sorted).start
    THEN <<c>> \o sorted
    ELSE <<Head(sorted)>> \o InsertByStart(c, Tail(sorted))

RECURSIVE SortByStart(_)
SortByStart(cs) ==
    IF cs = <<>> THEN <<>>
    ELSE InsertByStart(Head(cs), SortByStart(Tail(cs)))

\* for cut in cuts_data:
\*     if current_time < cut["start"]:
\*         segments_to_keep.append((current_time, cut["start"]))
\*     current_time = cut["end"]
RECURSIVE KeepLoop(_, _, _)
KeepLoop(cs, current_time, keep) ==
    IF cs = <<>>
    THEN [segments_to_keep |-> keep, current_time |-> current_time]
    ELSE LET cut == Head(cs)
             k == IF current_time < cut.start
                  THEN Append(keep, <<current_time, cut.start>>)
                  ELSE keep
         IN KeepLoop(Tail(cs), cut.end, k)

\* The video branch's last step without its tolerance, as the audio branch
\* has it.
VideoFinalNoTolerance(l, clip_duration) ==
    IF l.current_time < clip_duration
    THEN Append(l.segments_to_keep, <<l.current_time, clip_duration>>)
    ELSE l.segments_to_keep

\* if current_time + tolerance < clip.duration: append (current_time, duration)
VideoFinal(l, clip_duration) ==
    IF l.current_time + Tolerance < clip_duration
    THEN Append(l.segments_to_keep, <<l.current_time, clip_duration>>)
    ELSE l.segments_to_keep

\* if current_time < clip.duration: append (current_time, duration)
AudioFinal(l, clip_duration) ==
    IF l.current_time < clip_duration
    THEN Append(l.segments_to_keep, <<l.current_time, clip_duration>>)
    ELSE l.segments_to_keep

VideoKeep(cs, clip_duration) ==
    VideoFinal(KeepLoop(SortByStart(cs), 0, <<>>), clip_duration)

AudioKeep(cs, clip_duration) ==
    AudioFinal(KeepLoop(cs, 0, <<>>), clip_duration)

KeepOf(f, cs, clip_duration) ==
    IF IsVideo(f) THEN VideoKeep(cs, clip_duration)
    ELSE AudioKeep(cs, clip_duration)

\* ---------------------------------------------------------------- state
VARIABLES
    status,            \* per request: "idle", "running", "ok" (200), "failed" (500)
    filename,          \* per request: file.filename
    cur,               \* the request the handler locals below belong to (0: none yet)
    pc,                \* where that handler stands
    cuts,              \* the form field `cuts`
    cuts_data,         \* json.loads(cuts), sorted in place by the video branch
    duration,          \* clip.duration of the uploaded media
    segments_to_keep,
    final_clips,       \* the subclips, in the order they were requested
    final_video,       \* what is written: the concatenation, or the clip itself
    uploads,           \* uploads/<filename>: 0 (absent) or the request that wrote it
    outputs,           \* outputs/cut_<filename>: who wrote it and what
    temp_audio,        \* temp-audio.m4a: 0 (absent) or the request that wrote it
    downloaded,        \* per request: whose output its client got from /download
    threshold,         \* detect_silence: the form field `threshold`
    min_duration,      \* detect_silence: the form field `min_duration`
    transcript,        \* detect_silence: what the transcription returned
    silence_segments,  \* detect_silence: the list it builds
    error              \* detect_silence: the exception its except block caught

vars == <<status, filename, cur, pc, cuts, cuts_data, duration, segments_to_keep,
          final_clips, final_video, uploads, outputs, temp_audio, downloaded,
          threshold, min_duration, transcript, silence_segments, error>>

dlocals == <<threshold, min_duration, transcript, silence_segments, error>>

locals == <<cuts, cuts_data, duration, segments_to_keep, final_clips, final_video>>
files == <<uploads, outputs, temp_audio>>

NoOutput == [owner |-> 0, kind |-> "none"]
NoClip == [kind |-> "none", clips |-> <<>>]

\* detect_silence counts time in units of 0.5 s and likelihoods and
\* confidences in percent: 0.5 s is 1, 3.0 s is 6, 0.3 is 30, 0.9 is 90.
MaxTotal == 6
MaxSegs == 2

\* threshold: float = Form(0.3)
DefaultThreshold == 30
\* min_duration: float = Form(0.5)
DefaultMinDuration == 1
\* if avg_no_speech_prob > 0.4
MusicThreshold == 40
\* segment_duration = 3.0
SegmentDuration == 6
\* confidence = 0.9 of the gaps
GapConfidence == 90
\* confidence = 0.6 + (i % 3) * 0.1 of the simulated segments
MusicBase == 60
MusicStep == 10

NoTranscript == [duration |-> 0, segments |-> <<>>]

\* No detect_silence handler has run: its parameters stand at their
\* defaults (main.py:134-135) and its locals are unbound.
DetectIdle ==
    /\ threshold = DefaultThreshold
    /\ min_duration = DefaultMinDuration
    /\ transcript = NoTranscript
    /\ silence_segments = <<>>
    /\ error = "none"

Init ==
    /\ status = [r \in Reqs |-> "idle"]
    /\ filename = [r \in Reqs |-> NoFile]
    /\ cur = 0
    /\ pc = "idle"
    /\ cuts = [json |-> TRUE, list |-> <<>>]
    /\ cuts_data = <<>>
    /\ duration = 1
    /\ segments_to_keep = <<>>
    /\ final_clips = <<>>
    /\ final_video = NoClip
    /\ uploads = [f \in Filenames |-> 0]
    /\ outputs = [f \in Filenames |-> NoOutput]
    /\ temp_audio = 0
    /\ downloaded = [r \in Reqs |-> 0]
    /\ DetectIdle

\* No handler is running: the event loop is free to start one.
LoopFree == pc = "idle"

\* cut_video up to the saved upload (main.py:322-336).  json.loads comes
\* first: when it raises, nothing was written.
Receive(r, f, c, d) ==
    /\ LoopFree
    /\ r = cur + 1
    /\ cur' = r
    /\ filename' = [filename EXCEPT ![r] = f]
    /\ cuts' = c
    /\ duration' = d
    /\ segments_to_keep' = <<>>
    /\ final_clips' = <<>>
    /\ final_video' = NoClip
    /\ IF ~c.json
       THEN /\ cuts_data' = <<>>
            /\ status' = [status EXCEPT ![r] = "failed"]
            /\ pc' = "failed"
            /\ UNCHANGED uploads
       ELSE /\ cuts_data' = c.list
            /\ status' = [status EXCEPT ![r] = "running"]
            /\ pc' = "saved"
            /\ uploads' = [uploads EXCEPT ![f] = r]
    /\ UNCHANGED <<outputs, temp_audio, downloaded>>
    /\ UNCHANGED dlocals

\* The clip is opened and the keep list computed (main.py:341-379, 407-420).
Plan ==
    /\ pc = "saved"
    /\ cuts_data' = IF IsVideo(filename[cur]) THEN SortByStart(cuts_data) ELSE cuts_data
    /\ segments_to_keep' = KeepOf(filename[cur], cuts_data, duration)
    /\ pc' = "planned"
    /\ UNCHANGED <<status, filename, cur, cuts, duration, final_clips, final_video,
                   files, downloaded>>
    /\ UNCHANGED dlocals

\* One clip.subclip(start, end) of the list comprehension (main.py:383, 424).
Extract ==
    /\ pc = "planned"
    /\ Len(final_clips) < Len(segments_to_keep)
    /\ final_clips' = Append(final_clips, segments_to_keep[Len(final_clips) + 1])
    /\ UNCHANGED <<status, filename, cur, pc, cuts, cuts_data, duration,
                   segments_to_keep, final_video, files, downloaded>>
    /\ UNCHANGED dlocals

\* concatenate_videoclips(final_clips), or the clip itself when there is
\* nothing to keep (main.py:382-387, 423-427).
Concat ==
    /\ pc = "planned"
    /\ Len(final_clips) = Len(segments_to_keep)
    /\ final_video' = IF segments_to_keep # <<>>
                      THEN [kind |-> "concat", clips |-> final_clips]
                      ELSE [kind |-> "clip", clips |-> <<>>]
    /\ pc' = "concatenated"
    /\ UNCHANGED <<status, filename, cur, cuts, cuts_data, duration,
                   segments_to_keep, final_clips, files, downloaded>>
    /\ UNCHANGED dlocals

\* write_videofile(output_path, temp_audiofile='temp-audio.m4a'), which
\* writes and then removes the temporary audio, or write_audiofile
\* (main.py:390-399, 430-431).
Write ==
    /\ pc = "concatenated"
    /\ outputs' = [outputs EXCEPT ![filename[cur]] =
                      [owner |-> cur, kind |-> final_video.kind]]
    /\ temp_audio' = IF IsVideo(filename[cur]) THEN 0 ELSE temp_audio
    /\ pc' = "written"
    /\ UNCHANGED <<status, filename, cur, locals, uploads, downloaded>>
    /\ UNCHANGED dlocals

\* if os.path.exists(file_path): os.remove(file_path); return (main.py:437-441).
Finish ==
    /\ pc = "written"
    /\ uploads' = [uploads EXCEPT ![filename[cur]] = 0]
    /\ status' = [status EXCEPT ![cur] = "ok"]
    /\ pc' = "done"
    /\ UNCHANGED <<filename, cur, locals, outputs, temp_audio, downloaded>>
    /\ UNCHANGED dlocals

\* except Exception: raise HTTPException(500) (main.py:443-448).  The media
\* engine may raise when the clip is opened, at a subclip, at the
\* concatenation, or while the output is written; a failed write may leave
\* a partial output and, for a video, the temporary audio.  The handler
\* removes nothing.
Fail ==
    /\ \/ /\ pc = "saved"
          /\ UNCHANGED <<outputs, temp_audio>>
       \/ /\ pc = "planned"
          /\ segments_to_keep # <<>>
          /\ UNCHANGED <<outputs, temp_audio>>
       \/ /\ pc = "concatenated"
          /\ \E partial \in BOOLEAN, temp \in BOOLEAN :
                /\ outputs' = IF partial
                              THEN [outputs EXCEPT ![filename[cur]] =
                                       [owner |-> cur, kind |-> "partial"]]
                              ELSE outputs
                /\ temp_audio' = IF temp /\ IsVideo(filename[cur]) THEN cur ELSE temp_audio
    /\ status' = [status EXCEPT ![cur] = "failed"]
    /\ pc' = "failed"
    /\ UNCHANGED <<filename, cur, locals, uploads, downloaded>>
    /\ UNCHANGED dlocals

\* The handler has answered (the return of main.py:441 or the raise of
\* main.py:448): its frame and locals are gone, the files stay.
Return ==
    /\ pc \in {"done", "failed"}
    /\ pc' = "idle"
    /\ cuts' = [json |-> TRUE, list |-> <<>>]
    /\ cuts_data' = <<>>
    /\ duration' = 1
    /\ segments_to_keep' = <<>>
    /\ final_clips' = <<>>
    /\ final_video' = NoClip
    /\ UNCHANGED <<status, filename, cur, files, downloaded>>
    /\ UNCHANGED dlocals

\* GET /download/cut_<filename> by the client of request r, which was
\* answered {"output_file": "outputs/cut_<filename>"} (main.py:450-463).
Download(r) ==
    /\ LoopFree
    /\ status[r] = "ok"
    /\ downloaded[r] = 0
    /\ outputs[filename[r]].owner # 0
    /\ downloaded' = [downloaded EXCEPT ![r] = outputs[filename[r]].owner]
    /\ UNCHANGED <<status, filename, cur, pc, locals, files>>
    /\ UNCHANGED dlocals

\* POST /cut-video: the event loop starts the next request's handler.
CutVideo ==
    /\ LoopFree
    /\ cur < MaxRequests
    /\ \E f \in Filenames, c \in CutsFields, d \in Durations :
          Receive(cur + 1, f, c, d)

Next ==
    \/ CutVideo
    \/ Plan
    \/ Extract
    \/ Concat
    \/ Write
    \/ Finish
    \/ Fail
    \/ Return
    \/ \E r \in Reqs : Download(r)

Spec == Init /\ [][Next]_vars

\* The keep-list computation alone: one request, its upload saved, for
\* every filename, cut list and media duration; the only step is Plan.
InitPlan ==
    /\ status = [r \in Reqs |-> IF r = 1 THEN "running" ELSE "idle"]
    /\ \E f \in Filenames :
          /\ filename = [r \in Reqs |-> IF r = 1 THEN f ELSE NoFile]
          /\ uploads = [g \in Filenames |-> IF g = f THEN 1 ELSE 0]
    /\ cur = 1
    /\ pc = "saved"
    /\ \E l \in CutLists :
          /\ cuts = [json |-> TRUE, list |-> l]
          /\ cuts_data = l
    /\ duration \in Durations
    /\ segments_to_keep = <<>>
    /\ final_clips = <<>>
    /\ final_video = NoClip
    /\ outputs = [f \in Filenames |-> NoOutput]
    /\ temp_audio = 0
    /\ downloaded = [r \in Reqs |-> 0]
    /\ DetectIdle

NextPlan == Plan

SpecPlan == InitPlan /\ [][NextPlan]_vars

\* ------------------------------------------------------ detect_silence

\* seg["no_speech_prob"] of a segment: speech, doubtful, no speech.
Probs == {20, 35, 50}

\* The segments of a transcript of the given duration.  The service does
\* not promise their order, nor that they are disjoint.
SegmentsOf(total) ==
    {g \in [start : 0..total, end : 0..total, no_speech_prob : Probs] :
        g.start < g.end}

Seg(a, b, p) == [start |-> a, end |-> b, no_speech_prob |-> p]

\* Transcripts of 10 s: speech at 0-2, 4-6 and 8-10 s, and one segment at
\* 5-7 s with likelihood 0.5 or 0.2.
Examples ==
    {[duration |-> 20,
      segments |-> <<Seg(0, 4, 20), Seg(8, 12, 20), Seg(16, 20, 20)>>],
     [duration |-> 20, segments |-> <<Seg(10, 14, 50)>>],
     [duration |-> 20, segments |-> <<Seg(10, 14, 20)>>]}

\* transcript.duration and transcript.segments, as the service returns them.
Transcripts ==
    Examples \cup
    UNION {{[duration |-> total, segments |-> l] :
               l \in UNION {[1..n -> SegmentsOf(total)] : n \in 0..MaxSegs}} :
           total \in 1..MaxTotal}

\* The form field min_duration: its default 0.5 s, or 1.0 s.
MinDurations == {DefaultMinDuration, 2 * DefaultMinDuration}

\* SilenceSegment(start, end, duration, confidence)
SilenceSegment(a, b, d, c) ==
    [start |-> a, end |-> b, duration |-> d, confidence |-> c]

RECURSIVE SumProbs(_)
SumProbs(segs) ==
    IF segs = <<>> THEN 0 ELSE Head(segs).no_speech_prob + SumProbs(Tail(segs))

\* avg_no_speech_prob > 0.4, for a transcript with segments:
\* sum / len > 0.4, on percents.
MusicOnly(segs) == SumProbs(segs) > MusicThreshold * Len(segs)

Min(a, b) == IF a <= b THEN a ELSE b

\* for i in range(int(total_duration / segment_duration)): the simulated
\* quiet segments of a music-only file (main.py:171-189).
MusicSilences(total, md) ==
    LET n == total \div SegmentDuration
        window(i) ==
            LET a == (i - 1) * SegmentDuration
                b == Min(i * SegmentDuration, total)
            IN SilenceSegment(a, b, b - a, MusicBase + ((i - 1) % 3) * MusicStep)
    IN SelectSeq([i \in 1..n |-> window(i)], LAMBDA x : x.duration >= md)

\* for segment in transcript.segments: the segments whose no_speech_prob is
\* above the threshold and that last min_duration (main.py:195-217).
LikelihoodSilences(segs, th, md) ==
    SelectSeq([i \in 1..Len(segs) |->
                  SilenceSegment(segs[i].start, segs[i].end,
                                 segs[i].end - segs[i].start,
                                 segs[i].no_speech_prob)],
              LAMBDA x : x.confidence > th /\ x.duration >= md)

\* The gap from 0 to the first segment of the list (main.py:223-235).
LeadingGap(segs, md) ==
    IF Len(segs) > 0 /\ segs[1].start >= md
    THEN <<SilenceSegment(0, segs[1].start, segs[1].start, GapConfidence)>>
    ELSE <<>>

\* The gaps between segments i and i + 1 of the list (main.py:238-256).
InnerGaps(segs, md) ==
    SelectSeq([i \in 1..(Len(segs) - 1) |->
                  SilenceSegment(segs[i].end, segs[i + 1].start,
                                 segs[i + 1].start - segs[i].end, GapConfidence)],
              LAMBDA x : x.duration >= md)

\* The gap from the last segment of the list to the end (main.py:259-279).
TrailingGap(segs, total, md) ==
    IF Len(segs) > 0 /\ total - segs[Len(segs)].end >= md
    THEN <<SilenceSegment(segs[Len(segs)].end, total,
                          total - segs[Len(segs)].end, GapConfidence)>>
    ELSE <<>>

GapSilences(segs, total, md) ==
    LeadingGap(segs, md) \o InnerGaps(segs, md) \o TrailingGap(segs, total, md)

\* The else branch: the likelihood segments, then the gaps (main.py:190-279).
SpeechSilences(segs, total, th, md) ==
    LikelihoodSilences(segs, th, md) \o GapSilences(segs, total, md)

\* silence_segments of a transcript with at least one segment (main.py:157-279).
DetectSilences(t, th, md) ==
    IF MusicOnly(t.segments)
    THEN MusicSilences(t.duration, md)
    ELSE SpeechSilences(t.segments, t.duration, th, md)

\* detect_silence up to the saved upload (main.py:139-146).
DetectReceive(r, f, th, md) ==
    /\ cur' = r
    /\ filename' = [filename EXCEPT ![r] = f]
    /\ status' = [status EXCEPT ![r] = "running"]
    /\ uploads' = [uploads EXCEPT ![f] = r]
    /\ threshold' = th
    /\ min_duration' = md
    /\ transcript' = NoTranscript
    /\ silence_segments' = <<>>
    /\ error' = "none"
    /\ pc' = "d_saved"
    /\ UNCHANGED <<locals, outputs, temp_audio, downloaded>>

\* POST /detect-silence: the event loop starts the request's handler.
DetectSilence ==
    /\ LoopFree
    /\ cur < MaxRequests
    /\ \E f \in Filenames, md \in MinDurations :
          DetectReceive(cur + 1, f, DefaultThreshold, md)

\* client.audio.transcriptions.create(...) returns (main.py:148-154).
Transcribe ==
    /\ pc = "d_saved"
    /\ transcript' \in Transcripts
    /\ pc' = "d_transcribed"
    /\ UNCHANGED <<status, filename, cur, locals, files, downloaded,
                   threshold, min_duration, silence_segments, error>>

\* The transcription raises; except Exception answers 500 (main.py:309-311).
TranscribeFail ==
    /\ pc = "d_saved"
    /\ error' = "APIError"
    /\ status' = [status EXCEPT ![cur] = "failed"]
    /\ pc' = "d_failed"
    /\ UNCHANGED <<filename, cur, locals, files, downloaded,
                   threshold, min_duration, transcript, silence_segments>>

\* The silence segments are computed (main.py:156-293).  With no segment
\* the average divides by len(transcript.segments) = 0 (main.py:162): the
\* ZeroDivisionError is caught by except Exception, which answers 500 and
\* removes nothing (main.py:309-311).
Detect ==
    /\ pc = "d_transcribed"
    /\ IF Len(transcript.segments) = 0
       THEN /\ error' = "ZeroDivisionError"
            /\ status' = [status EXCEPT ![cur] = "failed"]
            /\ pc' = "d_failed"
            /\ UNCHANGED silence_segments
       ELSE /\ silence_segments' = DetectSilences(transcript, threshold, min_duration)
            /\ pc' = "d_detected"
            /\ UNCHANGED <<error, status>>
    /\ UNCHANGED <<filename, cur, locals, files, downloaded,
                   threshold, min_duration, transcript>>

\* if os.path.exists(file_path): os.remove(file_path); return (main.py:295-307).
DetectFinish ==
    /\ pc = "d_detected"
    /\ uploads' = [uploads EXCEPT ![filename[cur]] = 0]
    /\ status' = [status EXCEPT ![cur] = "ok"]
    /\ pc' = "d_done"
    /\ UNCHANGED <<filename, cur, locals, outputs, temp_audio, downloaded, dlocals>>

NextDetect ==
    \/ DetectSilence
    \/ Transcribe
    \/ TranscribeFail
    \/ Detect
    \/ DetectFinish

\* One detect_silence request, from its arrival to its answer.
SpecDetect == Init /\ [][NextDetect]_vars

\* ----------------------------------------------------------- the claims

\* Ticks stand for the half-open cells [t, t+1) of the media.
Cells == 0..(duration - 1)

\* 0 <= start < end: what the spec calls a well-formed cut.
WellFormed(cs) == \A i \in 1..Len(cs) : 0 <= cs[i].start /\ cs[i].start < cs[i].end

\* All cuts of the list end within the media.
Within(cs, d) == \A i \in 1..Len(cs) : cs[i].end <= d

\* What the claims on the keep list are about: well-formed cuts inside
\* [0, D], in any order, overlapping or not.
Proper(cs, d) == WellFormed(cs) /\ Within(cs, d)

InCut(cs, t) == \E i \in 1..Len(cs) : cs[i].start <= t /\ t < cs[i].end

KeepsAt(keep, t) == {i \in 1..Len(keep) : keep[i][1] <= t /\ t < keep[i][2]}

\* The cells of the maximal run of uncut cells around t.
UncutRun(cs, t) ==
    {u \in Cells : \A v \in Cells :
        (((u <= v /\ v <= t) \/ (t <= v /\ v <= u)) => ~InCut(cs, v))}

Ascending(keep) == \A i \in 1..(Len(keep) - 1) : keep[i][1] < keep[i + 1][1]

Disjoint(keep) ==
    \A i \in 1..Len(keep) : \A j \in 1..Len(keep) :
        i < j => (keep[i][2] <= keep[j][1] \/ keep[j][2] <= keep[i][1])

\* The orderings of a list.
PermsOf(l) ==
    {[i \in 1..Len(l) |-> l[f[i]]] :
        f \in {g \in [1..Len(l) -> 1..Len(l)] :
                  \A i \in 1..Len(l) : \A j \in 1..Len(l) : g[i] = g[j] => i = j}}

Planned == pc = "planned"

\* The detect_silence handler has built its list for a transcript.
Detected == pc = "d_detected"

Spans(sil) == [i \in 1..Len(sil) |-> <<sil[i].start, sil[i].end>>]

\* No segment is above the likelihood threshold.
AllSpeech(segs, th) == \A i \in 1..Len(segs) : segs[i].no_speech_prob <= th

\* The segments came in ascending order and do not overlap, as a
\* transcription normally returns them.
Ordered(segs) == \A i \in 1..(Len(segs) - 1) : segs[i].end <= segs[i + 1].start

\* C1: for well-formed cuts within the media (overlapping, nested, touching ones included)
\* the keep list covers exactly [0, D] minus the union of the cuts: no cell
\* inside a cut is kept, and every cell outside all cuts is kept exactly
\* once, unless it lies in a gap no longer than the tolerance.
C1_KeepIsComplement ==
    (Planned /\ Proper(cuts.list, duration)) =>
        \A t \in Cells :
            IF InCut(cuts.list, t)
            THEN KeepsAt(segments_to_keep, t) = {}
            ELSE /\ Cardinality(KeepsAt(segments_to_keep, t)) <= 1
                 /\ \/ KeepsAt(segments_to_keep, t) # {}
                    \/ Cardinality(UncutRun(cuts.list, t)) <= Tolerance

\* C2: once the fragments of a request with well-formed cuts and something
\* to keep are assembled, every keep interval was extracted once, in order,
\* one concatenation received exactly those fragments, and they are
\* ascending by start and pairwise non-overlapping.
C2_OrderedAssembly ==
    (/\ pc \in {"concatenated", "written", "done"}
     /\ Proper(cuts.list, duration)
     /\ segments_to_keep # <<>>) =>
        /\ final_clips = segments_to_keep
        /\ final_video = [kind |-> "concat", clips |-> segments_to_keep]
        /\ Ascending(final_video.clips)
        /\ Disjoint(final_video.clips)

\* C3: a request that has been answered, with success or with an error,
\* has left neither its upload nor a temporary audio file behind.
C3_NoArtifactLeft ==
    \A r \in Reqs :
        status[r] \in {"ok", "failed"} =>
            /\ uploads[filename[r]] # r
            /\ temp_audio # r

\* C4: requests do not interfere through the filesystem: the output a
\* request was answered with stays the file that request wrote, and what
\* its client downloads is its own output.
C4_NoInterference ==
    \A r \in Reqs :
        /\ status[r] = "ok" => outputs[filename[r]].owner = r
        /\ downloaded[r] \in {0, r}

\* C5: a request whose well-formed cuts remove the whole media, so that
\* its keep list is empty, is not answered with success, and no copy of the
\* source is written as its output.
C5_NothingToKeepFails ==
    (/\ pc \in {"planned", "concatenated", "written", "done", "failed"}
     /\ Proper(cuts.list, duration)
     /\ \A t \in Cells : InCut(cuts.list, t)
     /\ segments_to_keep = <<>>) =>
        /\ status[cur] # "ok"
        /\ outputs[filename[cur]] # [owner |-> cur, kind |-> "clip"]

\* C6 as stated: with no cuts the keep list is the single interval
\* [0, D], in both branches and for every D > 0.
C6_EmptyCutsKeepWhole ==
    (Planned /\ cuts.list = <<>>) => segments_to_keep = << <<0, duration>> >>

\* C6 as amended: with no cuts the audio branch keeps [0, D] for every
\* D > 0; the video branch keeps [0, D] when D exceeds the tolerance and
\* keeps nothing when D is at most the tolerance.
C6_EmptyCutsKeep ==
    (Planned /\ cuts.list = <<>>) =>
        IF IsVideo(filename[cur]) /\ duration <= Tolerance
        THEN segments_to_keep = <<>>
        ELSE segments_to_keep = << <<0, duration>> >>

\* C6, reached: a video with no cuts, longer than the tolerance, planned
\* as the single interval [0, D].
C6_Witness ==
    /\ Planned
    /\ cuts.list = <<>>
    /\ IsVideo(filename[cur])
    /\ duration > Tolerance
    /\ segments_to_keep = << <<0, duration>> >>

\* C7: when the union of well-formed cuts within the media covers [0, D] entirely, the keep
\* list is empty.
C7_FullCoverKeepsNothing ==
    (/\ Planned
     /\ Proper(cuts.list, duration)
     /\ \A t \in Cells : InCut(cuts.list, t)) =>
        segments_to_keep = <<>>

\* C8: for well-formed cuts within a media at least as long as the
\* tolerance, every interval handed to extraction lasts at least the
\* tolerance.
C8_ExtractedAtLeastTolerance ==
    (Proper(cuts.list, duration) /\ duration >= Tolerance) =>
        \A i \in 1..Len(final_clips) :
            final_clips[i][2] - final_clips[i][1] >= Tolerance

\* C9: the keep list is the same for every ordering of the request's cuts.
C9_OrderIrrelevant ==
    (Planned /\ Proper(cuts.list, duration)) =>
        \A q \in PermsOf(cuts.list) :
            KeepOf(filename[cur], q, duration) = segments_to_keep

\* C10: a request with a malformed cut (start >= end) is refused before
\* anything is extracted or written.
C10_MalformedRejected ==
    (cur # 0 /\ pc # "idle" /\ cuts.json /\ ~WellFormed(cuts.list)) =>
        /\ final_clips = <<>>
        /\ outputs[filename[cur]].owner # cur

\* C11: for segments at or below the threshold, in whatever order they were
\* returned, the intervals emitted are exactly the leading gap, the gaps
\* between consecutive segments in ascending start order and the trailing
\* gap, each when it lasts min_duration; for speech at 0-2, 4-6, 8-10 s of
\* 10 s with min_duration 1.0 (one of the transcripts) that is (2,4),(6,8).
C11_GapsOfSortedSegments ==
    (Detected /\ AllSpeech(transcript.segments, threshold)) =>
        Spans(silence_segments) =
            Spans(GapSilences(SortByStart(transcript.segments),
                              transcript.duration, min_duration))

\* C12: for a transcript of one segment the result is that segment's span
\* with its likelihood as confidence when the likelihood is above the
\* threshold and it lasts min_duration, and is empty otherwise; so (5,7)
\* with likelihood 0.5 gives exactly (5, 7, 0.5) and with 0.2 gives nothing.
C12_LikelihoodRuleOnly ==
    (Detected /\ Len(transcript.segments) = 1) =>
        LET g == transcript.segments[1]
        IN silence_segments =
              IF g.no_speech_prob > threshold /\ g.end - g.start >= min_duration
              THEN <<SilenceSegment(g.start, g.end, g.end - g.start, g.no_speech_prob)>>
              ELSE <<>>

\* C13: every keep interval computed for well-formed cuts lies within
\* [0, D]: neither its start nor its end exceeds the media's duration.
C13_KeepWithinMedia ==
    (Planned /\ WellFormed(cuts.list)) =>
        \A i \in 1..Len(segments_to_keep) :
            /\ 0 <= segments_to_keep[i][1]
            /\ segments_to_keep[i][1] <= duration
            /\ segments_to_keep[i][2] <= duration

\* C14: a request with well-formed cuts and something to keep that failed
\* has left no output of its own, complete or partial, at
\* outputs/cut_<filename>, and when it failed before all fragments were
\* extracted nothing was concatenated.
C14_NoOutputOnFailure ==
    (/\ pc = "failed"
     /\ cuts.json
     /\ Proper(cuts.list, duration)
     /\ segments_to_keep # <<>>) =>
        /\ outputs[filename[cur]].owner # cur
        /\ Len(final_clips) < Len(segments_to_keep) => final_video = NoClip

\* C15: for segments returned in order, the list of one call is ascending
\* by start, and it is the result of one rule alone: the likelihood
\* rule's intervals, the gaps, or the uniform windows.
C15_AscendingOneRule ==
    (Detected /\ Ordered(transcript.segments)) =>
        /\ \A i \in 1..(Len(silence_segments) - 1) :
              silence_segments[i].start <= silence_segments[i + 1].start
        /\ silence_segments \in
              {LikelihoodSilences(transcript.segments, threshold, min_duration),
               GapSilences(transcript.segments, transcript.duration, min_duration),
               MusicSilences(transcript.duration, min_duration)}

\* C16: once the transcription has returned zero segments the request
\* fails with InsufficientInput, has emitted nothing and has left no upload.
C16_NoSegmentsInsufficientInput ==
    (/\ pc \in {"d_detected", "d_done", "d_failed"}
     /\ transcript.duration > 0
     /\ transcript.segments = <<>>) =>
        /\ pc = "d_failed"
        /\ error = "InsufficientInput"
        /\ silence_segments = <<>>
        /\ uploads[filename[cur]] = 0

\* C17: when no segment is above the threshold, so that every interval
\* emitted is a gap, each has confidence min(1, g / 5.0) for its duration
\* g (in percent and units of 0.5 s: min(100, 10 g)), within [0, 1].
C17_GapConfidence ==
    (Detected /\ AllSpeech(transcript.segments, threshold)) =>
        \A i \in 1..Len(silence_segments) :
            /\ silence_segments[i].confidence = Min(100, 10 * silence_segments[i].duration)
            /\ 0 <= silence_segments[i].confidence
            /\ silence_segments[i].confidence <= 100

\* C18: for well-formed cuts within the media, the keep list a request
\* computed is the one the video branch computes and the one the audio
\* branch computes: the two branches agree.
C18_BranchesAgree ==
    (Planned /\ Proper(cuts.list, duration)) =>
        /\ segments_to_keep = VideoKeep(cuts.list, duration)
        /\ segments_to_keep = AudioKeep(cuts.list, duration)

====
